---- MODULE Spec2Model ----
(***************************************************************************)
(* Model of ArgumentConfig::parse_args (src/src/lib.rs).                   *)
(*                                                                         *)
(* A token (a Rust String) is a sequence of characters; a character is a   *)
(* one-character string.  The character "é" is encoded on two bytes in     *)
(* UTF-8, every other character of the model on one: str::len() and the    *)
(* slices arg[1..], arg[2..] count BYTES, chars() yields CHARACTERS.       *)
(***************************************************************************)
EXTENDS Naturals, Sequences, FiniteSets

VARIABLES
    args,          \* the argument vector handed to parse_args
    idx,           \* number of elements the iterator `iter` has yielded
    pc,            \* "start" | "loop" | "done" | "panic"
    path_divider,  \* the local `path_divider`
    executable,    \* self.executable
    commands,      \* self.commands
    flags,         \* self.flags
    paths,         \* self.paths
    emitted        \* history: what each loop iteration appended to each list

vars == <<args, idx, pc, path_divider, executable, commands, flags, paths, emitted>>

----------------------------------------------------------------------------
(* Bounds of the explored inputs *)

MaxTokens == 2     \* tokens after element 0 in an enumerated input
MaxTokLen == 3     \* characters in an enumerated token

Dash == "-"

\* Characters of the enumerated tokens: the dash and an ordinary character
Alphabet == {Dash, "a"}

\* All sequences over S of length at most n
SeqUpTo(S, n) == UNION {[1..k -> S] : k \in 0..n}

\* Tokens holding a character whose UTF-8 encoding takes two bytes
WideTokens ==
    {<<"é">>, <<Dash, "é">>, <<Dash, Dash, "é">>, <<Dash, "a", "é">>}

Tokens == SeqUpTo(Alphabet, MaxTokLen) \cup WideTokens

DD == <<Dash, Dash>>     \* the token "--"

\* Element 0 is only ever copied, so a few representative shapes are enough:
\* the empty string, the divider and a flag-like name (the examples below add
\* ordinary names)
Executables == {<<>>, DD, <<Dash, "a">>}

\* The documentation example and the scenarios of the specification
ExampleDoc ==
    << <<".", "/", "b", "i", "n">>,
       <<Dash, "f", "x">>,
       <<Dash, Dash, "v", "e", "r", "b", "o", "s", "e">>,
       <<"f", "o", "o">>,
       <<"b", "a", "r">>,
       DD,
       <<"f", "r", "o", "m">>,
       <<"t", "o">> >>

ExampleTwoDividers ==
    << <<".", "/", "b", "i", "n">>, DD, DD, <<"a">> >>

ExampleBareDash ==
    << <<".", "/", "b", "i", "n">>, <<Dash>> >>

ExampleMixed ==
    << <<"a">>, <<Dash, Dash, Dash, "a">>, <<>>, <<Dash, "é">>, DD,
       <<Dash, "a">>, DD, <<>>, <<Dash, Dash, "a">> >>

Examples == {ExampleDoc, ExampleTwoDividers, ExampleBareDash, ExampleMixed}

Inputs ==
    {<<>>}
    \cup {<<e>> \o rest : e \in Executables, rest \in SeqUpTo(Tokens, MaxTokens)}
    \cup Examples

----------------------------------------------------------------------------
(* String primitives, computed as the standard library computes them *)

\* Bytes of the UTF-8 encoding of a character (char::len_utf8)
Utf8Len(c) == IF c = "é" THEN 2 ELSE 1

\* str::len(): the length in bytes
RECURSIVE ByteLen(_)
ByteLen(s) == IF s = <<>> THEN 0 ELSE Utf8Len(Head(s)) + ByteLen(Tail(s))

\* str::starts_with(prefix)
StartsWith(s, prefix) ==
    /\ Len(s) >= Len(prefix)
    /\ SubSeq(s, 1, Len(prefix)) = prefix

\* str::is_char_boundary(n): byte offset n is the start of s, its end, or
\* the first byte of one of its characters
IsCharBoundary(s, n) == \E k \in 0..Len(s) : ByteLen(SubSeq(s, 1, k)) = n

\* &s[n..]: the characters from byte offset n on (the slice panics unless
\* IsCharBoundary(s, n))
SliceFrom(s, n) ==
    LET k == CHOOSE k \in 0..Len(s) : ByteLen(SubSeq(s, 1, k)) = n
    IN  SubSeq(s, k + 1, Len(s))

\* s.chars().for_each(|c| v.push(String::from(c))): one string per character
CharStrings(s) == [j \in 1..Len(s) |-> <<s[j]>>]

----------------------------------------------------------------------------
(* The branches of the loop body, as functions of the token *)

\* line 84: arg.eq(&"--")
IsDivider(arg) == arg = DD

\* Variant: the long-flag test looks at one dash only
IsLongFlag_OneDash(arg) == StartsWith(arg, <<Dash>>)

\* line 96: arg.starts_with("--")
IsLongFlag(arg) == StartsWith(arg, DD)

\* Variant: a short flag needs a character after the dash
IsShortFlag_NeedsName(arg) == Len(arg) > 1 /\ StartsWith(arg, <<Dash>>)

\* line 102: arg.starts_with("-")
IsShortFlag(arg) == StartsWith(arg, <<Dash>>)

\* Variant: a long flag loses one dash only
LongFlagEntries_OneDash(arg) == <<SliceFrom(arg, 1)>>

\* line 97: the entries pushed for a long flag
LongFlagEntries(arg) == <<SliceFrom(arg, 2)>>

\* Variant: grouped short flags are not expanded
ShortFlagEntries_NoExpand(arg) == <<SliceFrom(arg, 1)>>

\* Variant: every short flag token is expanded character by character
ShortFlagEntries_AlwaysExpand(arg) == CharStrings(SliceFrom(arg, 1))

\* lines 104-108: the entries pushed for a short flag token
ShortFlagEntries(arg) ==
    IF ByteLen(arg) > 2 THEN CharStrings(SliceFrom(arg, 1))
    ELSE <<SliceFrom(arg, 1)>>

\* Variant: element 0 goes through the dash stripping of the flags
FirstOrEmpty_StripDashes(a) ==
    IF a = <<>> THEN <<>>
    ELSE IF StartsWith(a[1], DD) THEN SliceFrom(a[1], 2)
    ELSE IF StartsWith(a[1], <<Dash>>) THEN SliceFrom(a[1], 1)
    ELSE a[1]

\* lines 73-76: the value given to self.executable
FirstOrEmpty(a) == IF a = <<>> THEN <<>> ELSE a[1]

----------------------------------------------------------------------------
(* The state machine *)

\* ArgumentConfig::new() followed by the entry of parse_args
Init ==
    /\ args \in Inputs
    /\ idx = 0
    /\ pc = "start"
    /\ path_divider = FALSE
    /\ executable = <<>>
    /\ commands = <<>>
    /\ flags = <<>>
    /\ paths = <<>>
    /\ emitted = <<>>

\* What a loop iteration appended to a list
Delta(old, new) == SubSeq(new, Len(old) + 1, Len(new))

\* The history records the token of the iteration and the growth of each list
Record ==
    emitted' = Append(emitted,
                  [tok      |-> args[idx + 1],
                   commands |-> Delta(commands, commands'),
                   flags    |-> Delta(flags, flags'),
                   paths    |-> Delta(paths, paths')])

\* lines 71-76
ParseStart ==
    /\ pc = "start"
    /\ path_divider' = FALSE
    /\ executable' = FirstOrEmpty(args)
    /\ idx' = IF args = <<>> THEN 0 ELSE 1
    /\ pc' = "loop"
    /\ UNCHANGED <<args, commands, flags, paths, emitted>>

\* lines 79-80: the iterator is exhausted
LoopBreak ==
    /\ pc = "loop"
    /\ idx >= Len(args)
    /\ pc' = "done"
    /\ UNCHANGED <<args, idx, path_divider, executable, commands, flags, paths, emitted>>

\* Variant: "--" toggles the divider instead of setting it
Divider_Toggle ==
    /\ pc = "loop"
    /\ idx < Len(args)
    /\ IsDivider(args[idx + 1])
    /\ path_divider' = ~path_divider
    /\ idx' = idx + 1
    /\ UNCHANGED <<args, pc, executable, commands, flags, paths>>
    /\ Record

\* lines 84-87
Divider ==
    /\ pc = "loop"
    /\ idx < Len(args)
    /\ IsDivider(args[idx + 1])
    /\ path_divider' = TRUE
    /\ idx' = idx + 1
    /\ UNCHANGED <<args, pc, executable, commands, flags, paths>>
    /\ Record

\* lines 90-93
PathPush ==
    /\ pc = "loop"
    /\ idx < Len(args)
    /\ ~IsDivider(args[idx + 1])
    /\ path_divider
    /\ paths' = Append(paths, args[idx + 1])
    /\ idx' = idx + 1
    /\ UNCHANGED <<args, pc, path_divider, executable, commands, flags>>
    /\ Record

\* The slice arg[n..] is out of range or splits a character: the thread panics
SlicePanic ==
    /\ pc' = "panic"
    /\ UNCHANGED <<args, idx, path_divider, executable, commands, flags, paths, emitted>>

\* The iteration pushes `entries` to flags
PushFlags(entries) ==
    /\ flags' = flags \o entries
    /\ idx' = idx + 1
    /\ UNCHANGED <<args, pc, path_divider, executable, commands, paths>>
    /\ Record

\* lines 96-99
LongFlag ==
    /\ pc = "loop"
    /\ idx < Len(args)
    /\ ~IsDivider(args[idx + 1])
    /\ ~path_divider
    /\ IsLongFlag(args[idx + 1])
    /\ IF IsCharBoundary(args[idx + 1], 2)
       THEN PushFlags(LongFlagEntries(args[idx + 1]))
       ELSE SlicePanic

\* lines 102-111
ShortFlag ==
    /\ pc = "loop"
    /\ idx < Len(args)
    /\ ~IsDivider(args[idx + 1])
    /\ ~path_divider
    /\ ~IsLongFlag(args[idx + 1])
    /\ IsShortFlag(args[idx + 1])
    /\ IF IsCharBoundary(args[idx + 1], 1)
       THEN PushFlags(ShortFlagEntries(args[idx + 1]))
       ELSE SlicePanic

\* line 114
Command ==
    /\ pc = "loop"
    /\ idx < Len(args)
    /\ ~IsDivider(args[idx + 1])
    /\ ~path_divider
    /\ ~IsLongFlag(args[idx + 1])
    /\ ~IsShortFlag(args[idx + 1])
    /\ commands' = Append(commands, args[idx + 1])
    /\ idx' = idx + 1
    /\ UNCHANGED <<args, pc, path_divider, executable, flags, paths>>
    /\ Record

Next ==
    \/ ParseStart
    \/ LoopBreak
    \/ Divider
    \/ PathPush
    \/ LongFlag
    \/ ShortFlag
    \/ Command

Spec == Init /\ [][Next]_vars

\* parse_args is straight-line synchronous code: an enabled step is taken
LiveSpec == Spec /\ WF_vars(Next)

----------------------------------------------------------------------------
(* Vocabulary of the properties, written from the input alone *)

\* Number of tokens after element 0; token i is args[i + 1]
NTok == IF args = <<>> THEN 0 ELSE Len(args) - 1

Tok(i) == args[i + 1]

\* Position of the first "--" among the tokens after element 0, 0 if none
FirstDD ==
    IF \E i \in 1..NTok : Tok(i) = <<"-", "-">>
    THEN CHOOSE i \in 1..NTok :
            /\ Tok(i) = <<"-", "-">>
            /\ \A j \in 1..(i - 1) : Tok(j) # <<"-", "-">>
    ELSE 0

\* Token i is met before any "--"
BeforeDivider(i) == \A j \in 1..i : Tok(j) # <<"-", "-">>

\* Token i comes after the first "--"
AfterDivider(i) == FirstDD # 0 /\ i > FirstDD

Dashed(t) == Len(t) >= 1 /\ t[1] = "-"

DoubleDashed(t) == Len(t) >= 2 /\ t[1] = "-" /\ t[2] = "-"

NotDashed(t) == ~Dashed(t)

RECURSIVE Flatten(_)
Flatten(ss) == IF ss = <<>> THEN <<>> ELSE Head(ss) \o Flatten(Tail(ss))

\* The iterations so far handled the tokens 1, 2, ... in order
HistoryAligned == \A i \in 1..Len(emitted) : emitted[i].tok = Tok(i)

\* Each list is the concatenation, in encounter order, of what the iterations
\* appended to it
FlagsInEncounterOrder ==
    flags = Flatten([i \in 1..Len(emitted) |-> emitted[i].flags])

OnlyFlags(i, entries) ==
    /\ emitted[i].flags = entries
    /\ emitted[i].commands = <<>>
    /\ emitted[i].paths = <<>>

----------------------------------------------------------------------------
(* C1: every token after the first "--" is appended verbatim to paths, in
   encounter order, and adds nothing to commands or flags, whatever it looks
   like (another "--" included): paths is exactly the input suffix that
   follows the first "--". *)
C1_PathsAreSuffixAfterDivider ==
    pc = "done" =>
        /\ HistoryAligned
        /\ \A i \in 1..Len(emitted) :
              AfterDivider(i) =>
                  /\ emitted[i].paths = <<Tok(i)>>
                  /\ emitted[i].commands = <<>>
                  /\ emitted[i].flags = <<>>
        /\ paths = IF FirstDD = 0 THEN <<>>
                   ELSE SubSeq(args, FirstDD + 2, Len(args))

(* C2: only the first "--" is consumed as the divider; a later "--" is an
   ordinary path token and is appended to paths as the string "--".
   ["./bin", "--", "--", "a"] gives executable "./bin", no commands, no
   flags and paths ["--", "a"]. *)
C2_LaterDividerIsPath ==
    pc = "done" =>
        /\ \A i \in 1..Len(emitted) :
              (AfterDivider(i) /\ emitted[i].tok = <<"-", "-">>) =>
                  emitted[i].paths = << <<"-", "-">> >>
        /\ args = ExampleTwoDividers =>
              /\ executable = <<".", "/", "b", "i", "n">>
              /\ commands = <<>>
              /\ flags = <<>>
              /\ paths = << <<"-", "-">>, <<"a">> >>

(* C3: partition: every token after element 0 other than the first "--"
   adds entries to exactly one of flags, commands, paths; the first "--" adds
   nothing; so |commands| + |paths| + (number of tokens that produced flag
   entries) = (number of tokens after element 0) - (1 if a "--" is present). *)
C3_Partition ==
    pc = "done" =>
        /\ Len(emitted) = NTok
        /\ \A i \in 1..Len(emitted) :
              IF i = FirstDD
              THEN /\ emitted[i].flags = <<>>
                   /\ emitted[i].commands = <<>>
                   /\ emitted[i].paths = <<>>
              ELSE Cardinality({l \in {"flags", "commands", "paths"} :
                                   emitted[i][l] # <<>>}) = 1
        /\ Len(commands) + Len(paths)
              + Cardinality({i \in 1..Len(emitted) : emitted[i].flags # <<>>})
           = NTok - (IF FirstDD # 0 THEN 1 ELSE 0)

(* C4: once parse_args has read element 0, executable is element 0 verbatim
   (no dash stripping, no divider handling, even for "--" or "-x"); for the
   empty input the result has executable "" and three empty lists. *)
C4_ExecutableVerbatim ==
    /\ pc \in {"loop", "done"} =>
          executable = (IF Len(args) = 0 THEN <<>> ELSE Head(args))
    /\ (pc = "done" /\ args = <<>>) =>
          /\ executable = <<>>
          /\ commands = <<>>
          /\ flags = <<>>
          /\ paths = <<>>

C4_Witness ==
    /\ pc = "done"
    /\ Len(args) > 1
    /\ Head(args) = <<"-", "-">>
    /\ executable = <<"-", "-">>

(* C5: a single-dash token longer than 2 met before the divider appends
   (length - 1) entries to flags, one per character after the dash, in
   character order, at the place its encounter order gives it; the
   documentation example yields flags f, x, verbose, commands foo, bar and
   paths from, to. *)
C5_GroupedShortFlags ==
    /\ HistoryAligned
    /\ FlagsInEncounterOrder
    /\ \A i \in 1..Len(emitted) :
          LET t == emitted[i].tok IN
          (BeforeDivider(i) /\ Dashed(t) /\ ~DoubleDashed(t) /\ Len(t) > 2) =>
              /\ Len(emitted[i].flags) = Len(t) - 1
              /\ OnlyFlags(i, [j \in 1..(Len(t) - 1) |-> <<t[j + 1]>>])
    /\ (pc = "done" /\ args = ExampleDoc) =>
          /\ executable = <<".", "/", "b", "i", "n">>
          /\ flags = << <<"f">>, <<"x">>, <<"v", "e", "r", "b", "o", "s", "e">> >>
          /\ commands = << <<"f", "o", "o">>, <<"b", "a", "r">> >>
          /\ paths = << <<"f", "r", "o", "m">>, <<"t", "o">> >>

C5_Witness ==
    /\ pc = "done"
    /\ \E i \in 1..Len(emitted) :
          /\ emitted[i].tok = <<"-", "a", "é">>
          /\ emitted[i].flags = << <<"a">>, <<"é">> >>
          /\ i > 1
          /\ emitted[i - 1].flags # <<>>

(* C6: a token that begins with "--", is not "--" itself and is met before
   the divider appends exactly one entry to flags, the token without its
   first two characters ("---x" gives "-x", no grouped expansion), in the
   order the tokens are met. *)
C6_LongFlags ==
    /\ HistoryAligned
    /\ FlagsInEncounterOrder
    /\ \A i \in 1..Len(emitted) :
          LET t == emitted[i].tok IN
          (BeforeDivider(i) /\ DoubleDashed(t) /\ t # <<"-", "-">>) =>
              OnlyFlags(i, << SubSeq(t, 3, Len(t)) >>)

C6_Witness ==
    /\ pc = "done"
    /\ \E i \in 1..Len(emitted) :
          /\ emitted[i].tok = <<"-", "-", "-", "a">>
          /\ emitted[i].flags = << <<"-", "a">> >>
    /\ \E i \in 1..Len(emitted) :
          /\ emitted[i].tok = <<"-", "-", "a">>
          /\ emitted[i].paths # <<>>

(* C7: commands is, verbatim and in encounter order, the tokens after
   element 0 and before the first "--" that do not start with "-", empty
   strings included; no entry of commands starts with "-". *)
C7_Commands ==
    /\ pc = "done" =>
          commands = SelectSeq(SubSeq(args, 2, IF FirstDD = 0 THEN Len(args)
                                               ELSE FirstDD),
                               NotDashed)
    /\ \A k \in 1..Len(commands) : ~Dashed(commands[k])

C7_Witness ==
    /\ pc = "done"
    /\ Len(commands) = 2
    /\ commands[1] = <<>>
    /\ commands[2] = <<"a", "-">>
    /\ flags = <<>>

(* C8: before the divider a bare "-" appends exactly one entry to flags, the
   empty string, and nothing to commands or paths; a two-character token "-x"
   (x not a dash) appends exactly the entry "x"; ["./bin", "-"] gives
   executable "./bin", flags [""], no commands, no paths. *)
C8_BareAndSingleShortFlag ==
    /\ HistoryAligned
    /\ \A i \in 1..Len(emitted) :
          LET t == emitted[i].tok IN
          /\ (BeforeDivider(i) /\ t = <<"-">>) => OnlyFlags(i, << <<>> >>)
          /\ (BeforeDivider(i) /\ Len(t) = 2 /\ t[1] = "-" /\ t[2] # "-") =>
                OnlyFlags(i, << <<t[2]>> >>)
    /\ (pc = "done" /\ args = ExampleBareDash) =>
          /\ executable = <<".", "/", "b", "i", "n">>
          /\ flags = << <<>> >>
          /\ commands = <<>>
          /\ paths = <<>>

C8_Witness ==
    /\ pc = "done"
    /\ flags = << <<>>, <<"é">> >>
    /\ Len(emitted) = 2

(* C9: totality: for every input the loop ends after taking each token
   exactly once and holds a result; no slice fails. *)
C9_Totality ==
    <>( /\ pc = "done"
        /\ idx = Len(args)
        /\ Len(emitted) = NTok
        /\ HistoryAligned )

C9_Witness ==
    /\ pc = "done"
    /\ Len(emitted) = 2
    /\ emitted[1].tok = <<"-">>
    /\ emitted[2].tok = <<"-", "-", "é">>

(* C10: the divider-seen boolean starts false, becomes true at the first
   "--" and is never reset; from then on commands and flags never change
   (only paths grows); before that paths is empty. *)
C10_DividerLatch ==
    /\ [](pc = "start" => ~path_divider)
    /\ [](path_divider <=> \E i \in 1..Len(emitted) : Tok(i) = <<"-", "-">>)
    /\ [](~path_divider => paths = <<>>)
    /\ [][path_divider =>
             /\ path_divider'
             /\ commands' = commands
             /\ flags' = flags
             /\ Len(paths') >= Len(paths)
             /\ SubSeq(paths', 1, Len(paths)) = paths]_vars

C10_Witness ==
    /\ pc = "done"
    /\ path_divider
    /\ Len(paths) = 3
    /\ Len(flags) = 2
    /\ Len(commands) = 1
    /\ Cardinality({i \in 1..Len(emitted) : emitted[i].tok = <<"-", "-">>}) = 2

====
